---- MODULE Spec2Model ----
(***************************************************************************)
(* Model of mapbox2qgis.py: the translation of Mapbox GL filter            *)
(* expressions into QGIS expression strings (parse_key, parse_value,       *)
(* parse_expression) and the extraction of renderer styles from the list   *)
(* of style layers (parse_color, parse_fill_layer, parse_line_layer,       *)
(* parse_layers).                                                          *)
(*                                                                         *)
(* Python strings are TLA+ strings, so that the rendered text is compared  *)
(* character for character.  A deserialized JSON node is a tagged record.  *)
(* A call either returns or raises; print() calls are counted.             *)
(***************************************************************************)
EXTENDS Integers, Sequences, FiniteSets, TLC

VARIABLES
    json_node,    \* the argument of the expression-level call under study
    called,       \* which function was applied to json_node ("" before the call)
    result,       \* the outcome of that call
    json_layers,  \* the argument of parse_layers
    idx,          \* position of the for loop of parse_layers (next layer, 1-based)
    styles,       \* the local list `styles` of parse_layers
    printed,      \* the lines parse_layers and its callees printed so far
    status,       \* "running", "returned" (renderer built) or "raised"
    exc           \* the exception that left parse_layers ("" when none)

vars == <<json_node, called, result, json_layers, idx, styles, printed, status, exc>>

exprVars == <<json_node, called, result>>
layerVars == <<json_layers, idx, styles, printed, status, exc>>

----------------------------------------------------------------------------
(* JSON nodes as json.loads produces them *)

JStr(s) == [t |-> "str", s |-> s]
JInt(n) == [t |-> "int", n |-> n]
JFlt(w, f) == [t |-> "float", whole |-> w, frac |-> f]   \* w.f, one fractional digit
JBool(b) == [t |-> "bool", b |-> b]
JNull == [t |-> "null"]
JArr(items) == [t |-> "list", items |-> items]
JObj(members) == [t |-> "dict", members |-> members]     \* members: a record

(* Outcome of a call: a returned value or a raised exception, with the     *)
(* lines printed on the way.                                               *)
Ok(v, p) == [ok |-> TRUE, v |-> v, prints |-> p]
Raise(e, p) == [ok |-> FALSE, err |-> e, prints |-> p]

----------------------------------------------------------------------------
(* Python's text conversions used by str.format and str() *)

Digit(d) == SubSeq("0123456789", d + 1, d + 1)

RECURSIVE NatToStr(_)
NatToStr(n) == IF n < 10 THEN Digit(n) ELSE NatToStr(n \div 10) \o Digit(n % 10)

IntToStr(n) == IF n < 0 THEN "-" \o NatToStr(0 - n) ELSE NatToStr(n)

RECURSIVE Join(_, _)
Join(lst, sep) ==
    IF Len(lst) = 0 THEN ""
    ELSE IF Len(lst) = 1 THEN lst[1]
    ELSE lst[1] \o sep \o Join(Tail(lst), sep)

(* repr() of a node.  The strings of the inputs hold no quote, and the     *)
(* only object that reaches a conversion is the empty one.                 *)
RECURSIVE PyRepr(_)
RECURSIVE PyReprs(_)
PyReprs(items) ==
    IF Len(items) = 0 THEN <<>> ELSE <<PyRepr(items[1])>> \o PyReprs(Tail(items))

PyRepr(v) ==
    CASE v.t = "str" -> "'" \o v.s \o "'"
      [] v.t = "int" -> IntToStr(v.n)
      [] v.t = "float" -> IntToStr(v.whole) \o "." \o IntToStr(v.frac)
      [] v.t = "bool" -> IF v.b THEN "True" ELSE "False"
      [] v.t = "null" -> "None"
      [] v.t = "list" -> "[" \o Join(PyReprs(v.items), ", ") \o "]"
      [] v.t = "dict" -> IF DOMAIN v.members = {} THEN "{}" ELSE "{...}"

PyStr(v) == IF v.t = "str" THEN v.s ELSE PyRepr(v)

----------------------------------------------------------------------------
(* parse_key, parse_value, parse_expression *)

parse_key_quotes_every_key(json_key) == "\"" \o PyStr(json_key) \o "\""

parse_key(json_key) ==
    IF json_key = JStr("$type") THEN "_geom_type"
    ELSE "\"" \o PyStr(json_key) \o "\""

ComparisonOps == {"==", "!=", ">=", ">", "<=", "<"}

(* "({})".format(") AND (".join(lst)), and the same with OR *)
JoinClausesBare(lst, word) == Join(lst, " " \o word \o " ")

JoinClauses(lst, word) == "(" \o Join(lst, ") " \o word \o " (") \o ")"

(* we use single '=' not '==' *)
ComparisonSymbol(op) == IF op = "==" THEN "=" ELSE op

FormatIn(key, lst) == key \o " IN (" \o Join(lst, ", ") \o ")"

FormatNotInWithoutNull(key, lst) == "(" \o key \o " NOT IN (" \o Join(lst, ", ") \o "))"

FormatNotIn(key, lst) ==
    "(" \o key \o " IS NULL OR " \o key \o " NOT IN (" \o Join(lst, ", ") \o "))"

(* the function's last statement, reached when no branch returned *)
UnknownOperatorReturnsNone(json_expr) == Ok("None", 0)

UnknownOperator(json_expr) == Raise("ValueError", 0)

RECURSIVE parse_value(_)
RECURSIVE parse_expression(_)
RECURSIVE ParseValues(_, _, _)

(* The list comprehension [parse_value(v) for v in ...]: left to right,    *)
(* the first exception ends it.                                            *)
ParseValues(items, acc, p) ==
    IF Len(items) = 0 THEN Ok(acc, p)
    ELSE LET r == parse_value(items[1])
         IN  IF r.ok THEN ParseValues(Tail(items), Append(acc, r.v), p + r.prints)
             ELSE Raise(r.err, p + r.prints)

(* isinstance(json_value, int) holds for a bool too; the last branch       *)
(* prints one line and returns the placeholder.                            *)
parse_value(json_value) ==
    IF json_value.t = "list" THEN parse_expression(json_value.items)
    ELSE IF json_value.t = "str" THEN Ok("'" \o json_value.s \o "'", 0)
    ELSE IF json_value.t \in {"int", "bool"} THEN Ok(PyRepr(json_value), 0)
    ELSE Ok("?", 1)

(* json_expr[k] of the source is json_expr[k + 1] here; an index past the  *)
(* end raises IndexError before the callee runs.                           *)
parse_expression(json_expr) ==
    IF Len(json_expr) = 0 THEN Raise("IndexError", 0)
    ELSE
    LET op == json_expr[1]
        n == Len(json_expr)
    IN  IF op = JStr("all") \/ op = JStr("any") THEN
            LET lst == ParseValues(Tail(json_expr), <<>>, 0)
            IN  IF lst.ok
                THEN Ok(JoinClauses(lst.v, IF op = JStr("all") THEN "AND" ELSE "OR"),
                        lst.prints)
                ELSE lst
        ELSE IF op.t = "str" /\ op.s \in ComparisonOps THEN
            IF n < 3 THEN Raise("IndexError", 0)
            ELSE LET val == parse_value(json_expr[3])
                 IN  IF val.ok
                     THEN Ok(parse_key(json_expr[2]) \o " " \o ComparisonSymbol(op.s)
                               \o " " \o val.v, val.prints)
                     ELSE val
        ELSE IF op = JStr("has") THEN
            IF n < 2 THEN Raise("IndexError", 0)
            ELSE Ok(parse_key(json_expr[2]) \o " IS NOT NULL", 0)
        ELSE IF op = JStr("!has") THEN
            IF n < 2 THEN Raise("IndexError", 0)
            ELSE Ok(parse_key(json_expr[2]) \o " IS NULL", 0)
        ELSE IF op = JStr("in") \/ op = JStr("!in") THEN
            IF n < 2 THEN Raise("IndexError", 0)
            ELSE LET key == parse_key(json_expr[2])
                     lst == ParseValues(SubSeq(json_expr, 3, n), <<>>, 0)
                 IN  IF ~lst.ok THEN lst
                     ELSE IF op = JStr("in")
                     THEN Ok(FormatIn(key, lst.v), lst.prints)
                     ELSE Ok(FormatNotIn(key, lst.v), lst.prints)
        ELSE UnknownOperator(json_expr)

----------------------------------------------------------------------------
(* Python string operations used by parse_color *)

Char(s, i) == SubSeq(s, i, i)

Slice(s, lo, hi) == IF hi < lo THEN "" ELSE SubSeq(s, lo, hi)   \* s[lo-1:hi]

StartsWith(s, p) == Len(s) >= Len(p) /\ SubSeq(s, 1, Len(p)) = p

EndsWith(s, p) == Len(s) >= Len(p) /\ SubSeq(s, Len(s) - Len(p) + 1, Len(s)) = p

RECURSIVE SplitFrom(_, _, _, _)
SplitFrom(s, i, cur, acc) ==
    IF i > Len(s) THEN Append(acc, cur)
    ELSE IF Char(s, i) = "," THEN SplitFrom(s, i + 1, "", Append(acc, cur))
    ELSE SplitFrom(s, i + 1, cur \o Char(s, i), acc)

Split(s) == SplitFrom(s, 1, "", <<>>)            \* s.split(',')

RECURSIVE Strip(_)
Strip(s) ==
    IF Len(s) > 0 /\ Char(s, 1) = " " THEN Strip(Slice(s, 2, Len(s)))
    ELSE IF Len(s) > 0 /\ Char(s, Len(s)) = " " THEN Strip(Slice(s, 1, Len(s) - 1))
    ELSE s

IsDigits(s) == Len(s) > 0 /\ \A i \in 1..Len(s) : \E d \in 0..9 : Char(s, i) = Digit(d)

DigitVal(c) == CHOOSE d \in 0..9 : Digit(d) = c

RECURSIVE StrToNat(_)
StrToNat(s) ==
    IF Len(s) = 1 THEN DigitVal(s)
    ELSE 10 * StrToNat(Slice(s, 1, Len(s) - 1)) + DigitVal(Char(s, Len(s)))

RECURSIVE Pow10(_)
Pow10(k) == IF k = 0 THEN 1 ELSE 10 * Pow10(k - 1)

(* int(text): surrounding blanks and a sign are accepted, then digits only *)
IntOfDigits(body, neg) ==
    IF IsDigits(body)
    THEN Ok(IF neg THEN 0 - StrToNat(body) ELSE StrToNat(body), 0)
    ELSE Raise("ValueError", 0)

IntOfStripped(s) ==
    IF Len(s) > 0 /\ Char(s, 1) \in {"-", "+"}
    THEN IntOfDigits(Slice(s, 2, Len(s)), Char(s, 1) = "-")
    ELSE IntOfDigits(s, FALSE)

PyInt(text) == IntOfStripped(Strip(text))

(* float(text), for the decimal notations digits and digits.digits; the    *)
(* value is the exact fraction <<numerator, denominator>>.                 *)
FloatOfParts(whole, frac) ==
    IF IsDigits(whole) /\ IsDigits(frac)
    THEN Ok(<<StrToNat(whole \o frac), Pow10(Len(frac))>>, 0)
    ELSE Raise("ValueError", 0)

FloatSplitAt(s, d) == FloatOfParts(Slice(s, 1, d - 1), Slice(s, d + 1, Len(s)))

Dots(s) == {i \in 1..Len(s) : Char(s, i) = "."}

FloatOfStripped(s) ==
    IF Dots(s) = {} THEN
        IF IsDigits(s) THEN Ok(<<StrToNat(s), 1>>, 0) ELSE Raise("ValueError", 0)
    ELSE FloatSplitAt(s, CHOOSE i \in Dots(s) : \A j \in Dots(s) : i <= j)

PyFloat(text) == FloatOfStripped(Strip(text))

(* value * 255 and value / 100. * 255 on exact fractions *)
Times255(q) == <<q[1] * 255, q[2]>>
Percent255(q) == <<q[1] * 255, q[2] * 100>>

(* The QColor a call builds, recorded by constructor and arguments *)
QColorNamed(name) == [ctor |-> "QColor(str)", name |-> name]
QColorRgb(r, g, b, a) == [ctor |-> "QColor(r,g,b,a)", r |-> r, g |-> g, b |-> b, a |-> a]
QColorHsl(h, s, l, a) == [ctor |-> "fromHsl", h |-> h, s |-> s, l |-> l, a |-> a]

Opaque == Ok(<<1, 1>>, 0)       \* no alpha argument: the constructor's default, 255

DropLast(s) == Slice(s, 1, Len(s) - 1)           \* s[:-1]

HslColor(hue, sat, lig, alp) ==
    IF ~hue.ok \/ ~sat.ok \/ ~lig.ok \/ ~alp.ok THEN Raise("ValueError", 0)
    ELSE Ok(QColorHsl(hue.v, Percent255(sat.v), Percent255(lig.v), Times255(alp.v)), 0)

HslFrom(lst, n) ==
    IF ~(Len(lst) = n /\ EndsWith(lst[2], "%") /\ EndsWith(lst[3], "%"))
    THEN Raise("AssertionError", 0)
    ELSE HslColor(PyInt(lst[1]), PyFloat(DropLast(lst[2])), PyFloat(DropLast(lst[3])),
                  IF n = 4 THEN PyFloat(lst[4]) ELSE Opaque)

RgbColor(r, g, b, alp) ==
    IF ~r.ok \/ ~g.ok \/ ~b.ok \/ ~alp.ok THEN Raise("ValueError", 0)
    ELSE Ok(QColorRgb(r.v, g.v, b.v, Times255(alp.v)), 0)

RgbFrom(lst, n) ==
    IF Len(lst) # n THEN Raise("AssertionError", 0)
    ELSE RgbColor(PyInt(lst[1]), PyInt(lst[2]), PyInt(lst[3]),
                  IF n = 4 THEN PyFloat(lst[4]) ELSE Opaque)

(* json_color[5:-1] and json_color[4:-1], split at the commas *)
Components(json_color, from) == Split(Slice(json_color, from + 1, Len(json_color) - 1))

parse_color(json_color) ==
    IF Len(json_color) = 0 THEN Raise("IndexError", 0)
    ELSE IF Char(json_color, 1) = "#" THEN Ok(QColorNamed(json_color), 0)
    ELSE IF StartsWith(json_color, "hsla") THEN HslFrom(Components(json_color, 5), 4)
    ELSE IF StartsWith(json_color, "hsl") THEN HslFrom(Components(json_color, 4), 3)
    ELSE IF StartsWith(json_color, "rgba") THEN RgbFrom(Components(json_color, 5), 4)
    ELSE IF StartsWith(json_color, "rgb") THEN RgbFrom(Components(json_color, 4), 3)
    ELSE Raise("ValueError", 0)

----------------------------------------------------------------------------
(* parse_fill_layer, parse_line_layer and the loop body of parse_layers.   *)
(* A JSON object is a function from its keys; obj[key] of a missing key    *)
(* raises KeyError.  A style is the record of what the setters were given; *)
(* None is NoStyle.  The lines printed are kept as a sequence.             *)

NoStyle == [geom |-> "None"]

PyFloatOf(json_number) ==      \* float(x) for a float, an int or a bool
    CASE json_number.t = "float" -> <<json_number.whole * 10 + json_number.frac, 10>>
      [] json_number.t = "int" -> <<json_number.n, 1>>
      [] json_number.t = "bool" -> <<IF json_number.b THEN 1 ELSE 0, 1>>

(* isinstance(x, (float, int)): a bool is an int *)
IsFloatOrInt(json_value) == json_value.t \in {"float", "int", "bool"}

DefaultOpacity == <<1, 1>>      \* fill_opacity = 1.0

FillStyle(fill_color, fill_outline_color, fill_opacity, lines) ==
    IF ~fill_color.ok THEN Raise(fill_color.err, <<>>)
    ELSE IF ~fill_outline_color.ok THEN Raise(fill_outline_color.err, <<>>)
    ELSE Ok([geom |-> "Polygon", color |-> fill_color.v,
             strokeColor |-> fill_outline_color.v, opacity |-> fill_opacity], lines)

HasString(json_paint, key) == key \in DOMAIN json_paint /\ json_paint[key].t = "str"

HasNumber(json_paint, key) == key \in DOMAIN json_paint /\ IsFloatOrInt(json_paint[key])

Complaint(json_paint, key, accepted, line) ==
    IF key \in DOMAIN json_paint /\ ~accepted THEN <<line>> ELSE <<>>

FillPaint(json_paint) ==
    IF "fill-color" \notin DOMAIN json_paint
    THEN Ok(NoStyle, <<"skipping fill without fill-color">>)
    ELSE IF json_paint["fill-color"].t # "str"
    THEN Ok(NoStyle, <<"skipping non-string color">>)
    ELSE FillStyle(
            parse_color(json_paint["fill-color"].s),
            IF HasString(json_paint, "fill-outline-color")
            THEN parse_color(json_paint["fill-outline-color"].s)
            ELSE parse_color(json_paint["fill-color"].s),
            IF HasNumber(json_paint, "fill-opacity")
            THEN PyFloatOf(json_paint["fill-opacity"])
            ELSE DefaultOpacity,
            Complaint(json_paint, "fill-outline-color",
                      HasString(json_paint, "fill-outline-color"),
                      "skipping non-string color")
              \o Complaint(json_paint, "fill-opacity",
                           HasNumber(json_paint, "fill-opacity"),
                           "skipping non-float opacity"))

parse_fill_layer(json_layer) ==
    IF "paint" \notin DOMAIN json_layer THEN Raise("KeyError", <<>>)
    ELSE FillPaint(json_layer["paint"].members)

LineStyle(line_color) ==
    IF ~line_color.ok THEN Raise(line_color.err, <<>>)
    ELSE Ok([geom |-> "Line", color |-> line_color.v], <<>>)

LinePaint(json_paint) ==
    IF "line-color" \notin DOMAIN json_paint
    THEN Ok(NoStyle, <<"skipping line without line-color">>)
    ELSE IF json_paint["line-color"].t # "str"
    THEN Ok(NoStyle, <<"skipping non-string color">>)
    ELSE LineStyle(parse_color(json_paint["line-color"].s))

parse_line_layer(json_layer) ==
    IF "paint" \notin DOMAIN json_layer THEN Raise("KeyError", <<>>)
    ELSE LinePaint(json_layer["paint"].members)

NoZoom == JInt(0 - 1)          \* the -1 of min_zoom / max_zoom

(* the line parse_value prints for a value of an unhandled type *)
ValueLines(n) == [i \in 1..n |-> "<type> False <value>"]

NeverBackground(json_layer) == FALSE

IsBackground(json_layer) == json_layer["type"] = JStr("background")

(* One pass of the for loop: what it does to `styles`, what it prints, and *)
(* the exception that ends it.                                             *)
Continue(lines) == [kind |-> "continue", lines |-> lines]
Append_(st, lines) == [kind |-> "append", style |-> st, lines |-> lines]
Abort(err, lines) == [kind |-> "raise", err |-> err, lines |-> lines]

Zoom(json_layer, key) == IF key \in DOMAIN json_layer THEN json_layer[key] ELSE NoZoom

(* lines 194-200: the setters and styles.append(st), when st is not None *)
Keep(json_layer, filter_text, st, lines) ==
    IF ~st.ok THEN Abort(st.err, lines \o st.prints)
    ELSE IF st.v = NoStyle THEN Continue(lines \o st.prints)
    ELSE Append_([name |-> json_layer["id"], layer |-> json_layer["source-layer"],
                  filter |-> filter_text, minZoom |-> Zoom(json_layer, "minzoom"),
                  maxZoom |-> Zoom(json_layer, "maxzoom"), symbol |-> st.v],
                 lines \o st.prints)

(* lines 186-192: the dispatch on the layer type *)
Dispatch(json_layer, filter_expr) ==
    IF ~filter_expr.ok THEN Abort(filter_expr.err, ValueLines(filter_expr.prints))
    ELSE IF json_layer["type"] = JStr("fill")
    THEN Keep(json_layer, filter_expr.v, parse_fill_layer(json_layer),
              ValueLines(filter_expr.prints))
    ELSE IF json_layer["type"] = JStr("line")
    THEN Keep(json_layer, filter_expr.v, parse_line_layer(json_layer),
              ValueLines(filter_expr.prints))
    ELSE Continue(ValueLines(filter_expr.prints) \o <<"skipping unknown layer type">>)

LoopBody(json_layer) ==
    IF "type" \notin DOMAIN json_layer THEN Abort("KeyError", <<>>)
    ELSE IF IsBackground(json_layer) THEN Continue(<<>>)
    ELSE IF "id" \notin DOMAIN json_layer THEN Abort("KeyError", <<>>)
    ELSE IF "source-layer" \notin DOMAIN json_layer THEN Abort("KeyError", <<>>)
    ELSE Dispatch(json_layer,
                  IF "filter" \in DOMAIN json_layer
                  THEN parse_expression(json_layer["filter"].items)
                  ELSE Ok("", 0))

----------------------------------------------------------------------------
(* Inputs of the expression-level calls *)

MaxOperands == 3     \* operands after the operator token of the outermost array

Operators == {"all", "any", "==", "!=", ">=", ">", "<=", "<", "has", "!has", "in", "!in"}

OperatorTokens == Operators \cup {"nope"}

EmptyObject == JObj(<<>>)

Atoms ==
    {JStr("class"), JStr("$type"), JInt(0 - 12), JFlt(1, 5), JBool(TRUE), JNull,
     EmptyObject}

E(op, args) == JArr(<<JStr(op)>> \o args)

NestedExprs ==
    {E("nope", <<JStr("class")>>),
     E("==", <<JStr("class"), JInt(0 - 12)>>),
     E("all", <<E("has", <<JStr("$type")>>), E("<=", <<JStr("class"), JInt(7)>>)>>),
     E("any", <<E("!has", <<JStr("class")>>),
                E("all", <<E("in", <<JStr("$type"), JStr("Polygon")>>),
                           E("nope", <<JStr("x")>>)>>)>>)}

Operands == Atoms \cup NestedExprs

SeqsUpTo(S, n) == UNION {[1..k -> S] : k \in 0..n}

Examples ==
    {E("==", <<JStr("$type"), JStr("Polygon")>>),
     E("!in", <<JStr("class"), JStr("river"), JStr("lake")>>),
     E("has", <<JStr("name")>>),
     JArr(<<>>)}

ExprInputs ==
    {E(op, args) : op \in OperatorTokens, args \in SeqsUpTo(Operands, MaxOperands)}
        \cup Examples \cup Operands

NoLayers == <<>>

InitExpr ==
    /\ json_node \in ExprInputs
    /\ called = ""
    /\ result = Ok("", 0)
    /\ json_layers = NoLayers
    /\ idx = 1
    /\ styles = <<>>
    /\ printed = <<>>
    /\ status = "idle"
    /\ exc = ""

CallParseExpression ==
    /\ called = ""
    /\ json_node.t = "list"
    /\ called' = "parse_expression"
    /\ result' = parse_expression(json_node.items)
    /\ UNCHANGED <<json_node, layerVars>>

CallParseValue ==
    /\ called = ""
    /\ json_node \in Operands
    /\ called' = "parse_value"
    /\ result' = parse_value(json_node)
    /\ UNCHANGED <<json_node, layerVars>>

CallParseKey ==
    /\ called = ""
    /\ json_node \in Operands
    /\ called' = "parse_key"
    /\ result' = Ok(parse_key(json_node), 0)
    /\ UNCHANGED <<json_node, layerVars>>

NextExpr == CallParseExpression \/ CallParseValue \/ CallParseKey

SpecExpr == InitExpr /\ [][NextExpr]_vars

----------------------------------------------------------------------------
(* Inputs of parse_layers *)

MaxLayers == 3       \* length of the layer list

Layer(type, id) ==
    ("type" :> JStr(type)) @@ ("id" :> JStr(id)) @@ ("source-layer" :> JStr("water"))

Paint(members) == "paint" :> JObj(members)

Stops == JObj("stops" :> JArr(<<>>))     \* a zoom function in place of a plain value

White == "fill-color" :> JStr("#fff")

BackgroundBare == "type" :> JStr("background")
BackgroundBadFilter ==
    ("type" :> JStr("background")) @@ ("filter" :> E("nope", <<JStr("class")>>))
FillPlain ==
    Layer("fill", "water") @@ Paint(White)
        @@ ("filter" :> E("==", <<JStr("$type"), JStr("Polygon")>>))
        @@ ("minzoom" :> JInt(3))
FillNoColor == Layer("fill", "park") @@ Paint(<<>>)
FillColorStops == Layer("fill", "wood") @@ Paint("fill-color" :> Stops)
FillFallbacks ==
    Layer("fill", "sand")
        @@ Paint(("fill-color" :> JStr("rgb(10, 20, 30)"))
                 @@ ("fill-outline-color" :> Stops) @@ ("fill-opacity" :> JStr("0.5")))
FillFull ==
    Layer("fill", "ice")
        @@ Paint(("fill-color" :> JStr("hsl(30, 19%, 90%)"))
                 @@ ("fill-outline-color" :> JStr("#000")) @@ ("fill-opacity" :> JFlt(0, 5)))
        @@ ("maxzoom" :> JInt(14))
FillOpacityFalse ==
    Layer("fill", "glass") @@ Paint(White @@ ("fill-opacity" :> JBool(FALSE)))
FillBadFilter ==
    Layer("fill", "moss") @@ Paint(White) @@ ("filter" :> E("nope", <<JStr("class")>>))
FillEmptyAll == Layer("fill", "rock") @@ Paint(White) @@ ("filter" :> E("all", <<>>))
FillNoPaint == Layer("fill", "mud")
LinePlain ==
    Layer("line", "road")
        @@ Paint("line-color" :> JStr("rgba(10, 20, 30, 0.5)"))
        @@ ("filter" :> E("!in", <<JStr("class"), JStr("river"), JStr("lake")>>))
LineNoColor == Layer("line", "rail") @@ Paint(<<>>)
LineColorStops == Layer("line", "path") @@ Paint("line-color" :> Stops)
LineBadColor == Layer("line", "pier") @@ Paint("line-color" :> JStr("red"))
SymbolLayer == Layer("symbol", "label")

LayerInputs ==
    {BackgroundBare, BackgroundBadFilter, FillPlain, FillNoColor, FillColorStops,
     FillFallbacks, FillFull, FillOpacityFalse, FillBadFilter, FillEmptyAll, FillNoPaint,
     LinePlain, LineNoColor, LineColorStops, LineBadColor, SymbolLayer}

Init ==
    /\ json_layers \in SeqsUpTo(LayerInputs, MaxLayers)
    /\ idx = 1
    /\ styles = <<>>
    /\ printed = <<>>
    /\ status = "running"
    /\ exc = ""
    /\ json_node = JNull
    /\ called = "parse_layers"
    /\ result = Ok("", 0)

InLoop == status = "running" /\ idx <= Len(json_layers)

(* background, unknown type, or a handler that returned None *)
SkipLayer ==
    /\ InLoop
    /\ LET step == LoopBody(json_layers[idx])
       IN  /\ step.kind = "continue"
           /\ printed' = printed \o step.lines
    /\ idx' = idx + 1
    /\ UNCHANGED <<json_layers, styles, status, exc, exprVars>>

AppendStyle ==
    /\ InLoop
    /\ LET step == LoopBody(json_layers[idx])
       IN  /\ step.kind = "append"
           /\ styles' = Append(styles, step.style)
           /\ printed' = printed \o step.lines
    /\ idx' = idx + 1
    /\ UNCHANGED <<json_layers, status, exc, exprVars>>

(* nothing in parse_layers catches: the exception leaves the function *)
RaiseFromLayer ==
    /\ InLoop
    /\ LET step == LoopBody(json_layers[idx])
       IN  /\ step.kind = "raise"
           /\ exc' = step.err
           /\ printed' = printed \o step.lines
    /\ status' = "raised"
    /\ UNCHANGED <<json_layers, idx, styles, exprVars>>

(* renderer.setStyles(styles); return renderer *)
ReturnRenderer ==
    /\ status = "running"
    /\ idx > Len(json_layers)
    /\ status' = "returned"
    /\ UNCHANGED <<json_layers, idx, styles, printed, exc, exprVars>>

Next == SkipLayer \/ AppendStyle \/ RaiseFromLayer \/ ReturnRenderer

Spec == Init /\ [][Next]_vars

----------------------------------------------------------------------------
(* Properties of the expression translation, stated without the            *)
(* translation's own helpers wherever the text is fixed by the claim.      *)

Parsed == called = "parse_expression"

OpOf(node) == IF Len(node.items) > 0 /\ node.items[1].t = "str" THEN node.items[1].s ELSE ""

Args(node) == Tail(node.items)

KeyText(k) == IF k = "$type" THEN "_geom_type" ELSE "\"" \o k \o "\""

DecimalText(n) ==
    CASE n = 0 - 12 -> "-12"
      [] n = 7 -> "7"

ValueText(v) == IF v.t = "str" THEN "'" \o v.s \o "'" ELSE DecimalText(v.n)

SymbolText(op) ==
    CASE op = "==" -> "="
      [] op = "!=" -> "!="
      [] op = ">=" -> ">="
      [] op = ">" -> ">"
      [] op = "<=" -> "<="
      [] op = "<" -> "<"

IsScalar(v) == v.t \in {"str", "int"}

RECURSIVE CommaList(_)
CommaList(texts) ==
    IF Len(texts) = 1 THEN texts[1] ELSE texts[1] \o ", " \o CommaList(Tail(texts))

RECURSIVE Clauses(_, _)
Clauses(texts, word) ==
    IF Len(texts) = 1 THEN "(" \o texts[1] \o ")"
    ELSE "(" \o texts[1] \o ") " \o word \o " " \o Clauses(Tail(texts), word)

Contains(s, c) == \E i \in 1..Len(s) : Char(s, i) = c

(* An array in a position the translation evaluates whose first element is *)
(* no supported operator: the node itself, an operand of all/any, the      *)
(* value of a comparison, a value of in/!in.                               *)
RECURSIVE ContainsUnknown(_)
ContainsUnknown(node) ==
    /\ node.t = "list"
    /\ Len(node.items) > 0
    /\ LET op == OpOf(node)
           n == Len(node.items)
       IN  \/ op \notin Operators
           \/ op \in {"all", "any"} /\ \E i \in 2..n : ContainsUnknown(node.items[i])
           \/ op \in ComparisonOps /\ n >= 3 /\ ContainsUnknown(node.items[3])
           \/ op \in {"in", "!in"} /\ n >= 2 /\ \E i \in 3..n : ContainsUnknown(node.items[i])

(* Some evaluated array lacks an operand its operator indexes *)
RECURSIVE LacksOperand(_)
LacksOperand(node) ==
    /\ node.t = "list"
    /\ LET op == OpOf(node)
           n == Len(node.items)
       IN  \/ n = 0
           \/ op \in ComparisonOps /\ n < 3
           \/ op \in {"has", "!has", "in", "!in"} /\ n < 2
           \/ op \in {"all", "any"} /\ \E i \in 2..n : LacksOperand(node.items[i])
           \/ op \in ComparisonOps /\ n >= 3 /\ LacksOperand(node.items[3])
           \/ op \in {"in", "!in"} /\ n >= 2 /\ \E i \in 3..n : LacksOperand(node.items[i])

\* C3: an array whose first element is no supported operator makes
\* parse_expression raise ValueError and return nothing; an enclosing
\* expression that evaluates such an array (as operand of all/any or as a value,
\* at any depth) returns no string either, and the exception is that ValueError
\* unless an array short of operands raised IndexError.
C3_UnknownOperatorFails ==
    Parsed =>
        /\ (Len(json_node.items) > 0 /\ OpOf(json_node) \notin Operators)
               => result = Raise("ValueError", 0)
        /\ ContainsUnknown(json_node) =>
               /\ ~result.ok
               /\ result.err = "ValueError" \/ LacksOperand(json_node)

C3_Witness ==
    /\ Parsed
    /\ json_node = E("in", <<JStr("class"), JStr("$type"),
                             E("any", <<E("!has", <<JStr("class")>>),
                                        E("all", <<E("in", <<JStr("$type"), JStr("Polygon")>>),
                                                   E("nope", <<JStr("x")>>)>>)>>)>>)
    /\ result = Raise("ValueError", 0)

ArityMismatch(node) ==
    LET op == OpOf(node)
        k == Len(Args(node))
    IN  \/ op \in {"all", "any"} /\ k = 0
        \/ op \in ComparisonOps /\ k # 2
        \/ op \in {"has", "!has"} /\ k # 1
        \/ op \in {"in", "!in"} /\ k = 1

\* C4: whenever the operand count does not match the operator's arity (all/any
\* with no operand, a comparison without exactly 2, has/!has without exactly 1,
\* in/!in with a key and no value) parse_expression fails and returns no string.
C4_ArityMismatchFails == (Parsed /\ ArityMismatch(json_node)) => ~result.ok

\* C5: parse_value yields an error for a float, a boolean, null and an object,
\* and no rendered expression contains the placeholder.
C5_UnsupportedValueFails ==
    /\ (called = "parse_value" /\ json_node.t \in {"float", "bool", "null", "dict"})
          => ~result.ok
    /\ (Parsed /\ result.ok) => ~Contains(result.v, "?")

\* C6: ["!in", k, v1..vn] with n >= 1 renders as
\* (<key> IS NULL OR <key> NOT IN (<v1>, ..., <vn>)) with one enclosing pair of
\* parentheses, and ["in", k, v1..vn] as <key> IN (<v1>, ..., <vn>); the values
\* keep their order and are separated by ", ".
C6_MembershipRendering ==
    (/\ Parsed
     /\ OpOf(json_node) \in {"in", "!in"}
     /\ Len(Args(json_node)) >= 2
     /\ json_node.items[2].t = "str"
     /\ \A i \in 3..Len(json_node.items) : IsScalar(json_node.items[i]))
    => LET K == KeyText(json_node.items[2].s)
           V == CommaList([i \in 1..(Len(json_node.items) - 2)
                             |-> ValueText(json_node.items[i + 2])])
       IN  result = Ok(IF OpOf(json_node) = "in"
                       THEN K \o " IN (" \o V \o ")"
                       ELSE "(" \o K \o " IS NULL OR " \o K \o " NOT IN (" \o V \o "))",
                       0)

C6_Witness ==
    /\ Parsed
    /\ json_node = E("!in", <<JStr("class"), JStr("river"), JStr("lake")>>)
    /\ result.ok
    /\ result.v = "(\"class\" IS NULL OR \"class\" NOT IN ('river', 'lake'))"

\* C7: all (any) over N >= 1 operand expressions renders as the N operand
\* renderings in input order, each in its own parentheses, joined by " AND "
\* (" OR "); a nested all/any is one such clause.
C7_BooleanRendering ==
    (/\ Parsed
     /\ OpOf(json_node) \in {"all", "any"}
     /\ Len(Args(json_node)) >= 1
     /\ \A i \in 2..Len(json_node.items) :
           /\ json_node.items[i].t = "list"
           /\ parse_expression(json_node.items[i].items).ok)
    => /\ result.ok
       /\ result.v = Clauses([i \in 1..Len(Args(json_node))
                                |-> parse_expression(json_node.items[i + 1].items).v],
                             IF OpOf(json_node) = "all" THEN "AND" ELSE "OR")

C7_Witness ==
    /\ Parsed
    /\ json_node = E("any", <<E("all", <<E("has", <<JStr("$type")>>),
                                         E("<=", <<JStr("class"), JInt(7)>>)>>),
                              E("==", <<JStr("class"), JInt(0 - 12)>>)>>)
    /\ result.ok
    /\ result.v = "((_geom_type IS NOT NULL) AND (\"class\" <= 7)) OR (\"class\" = -12)"

\* C8: the key $type renders as _geom_type and any other key between double
\* quotes, in comparisons, has, !has, in and !in; a comparison renders as
\* <key> <op> <value> with == as =, a string value in single quotes and an
\* integer as its decimal text.
C8_KeyAndComparisonRendering ==
    (/\ Parsed
     /\ Len(json_node.items) >= 2
     /\ json_node.items[2].t = "str")
    => LET op == OpOf(json_node)
           K == KeyText(json_node.items[2].s)
           n == Len(json_node.items)
       IN  /\ (op \in ComparisonOps /\ n = 3 /\ IsScalar(json_node.items[3]))
                => result = Ok(K \o " " \o SymbolText(op) \o " "
                                 \o ValueText(json_node.items[3]), 0)
           /\ (op = "has" /\ n = 2) => result = Ok(K \o " IS NOT NULL", 0)
           /\ (op = "!has" /\ n = 2) => result = Ok(K \o " IS NULL", 0)
           /\ (op = "in" /\ result.ok) => StartsWith(result.v, K \o " IN (")
           /\ (op = "!in" /\ result.ok)
                => StartsWith(result.v, "(" \o K \o " IS NULL OR " \o K \o " NOT IN (")

C8_Witness ==
    /\ Parsed
    /\ json_node = E("==", <<JStr("$type"), JStr("Polygon")>>)
    /\ result = Ok("_geom_type = 'Polygon'", 0)

----------------------------------------------------------------------------
(* Properties of parse_layers *)

Running == called = "parse_layers"

Members(json_layer, key) ==
    IF key \in DOMAIN json_layer THEN json_layer[key].members ELSE <<>>

IsKind(json_layer, kinds) ==
    "type" \in DOMAIN json_layer /\ json_layer["type"] \in {JStr(k) : k \in kinds}

PrimaryColor(json_layer) ==
    IF IsKind(json_layer, {"fill"}) THEN "fill-color" ELSE "line-color"

HasPrimaryColor(json_layer) ==
    /\ PrimaryColor(json_layer) \in DOMAIN Members(json_layer, "paint")
    /\ Members(json_layer, "paint")[PrimaryColor(json_layer)].t = "str"

MalformedFilter(json_layer) ==
    /\ "filter" \in DOMAIN json_layer
    /\ ContainsUnknown(json_layer["filter"]) \/ ArityMismatch(json_layer["filter"])

(* A layer the list of styles is to hold a style for *)
ValidLayer(json_layer) ==
    /\ IsKind(json_layer, {"fill", "line"})
    /\ {"id", "source-layer", "paint"} \subseteq DOMAIN json_layer
    /\ HasPrimaryColor(json_layer)
    /\ parse_color(Members(json_layer, "paint")[PrimaryColor(json_layer)].s).ok
    /\ ~MalformedFilter(json_layer)

\* C1: of N layers of which M are valid, parse_layers produces M styles, the i-th
\* from the i-th valid layer (its id and source-layer); invalid layers contribute
\* nothing and do not change what the other layers produce.
C1_StylesAreTheValidLayers ==
    (Running /\ status \in {"returned", "raised"})
    => LET valid == SelectSeq(json_layers, ValidLayer)
       IN  /\ status = "returned"
           /\ Len(styles) = Len(valid)
           /\ \A i \in 1..Len(valid) :
                 /\ styles[i].name = valid[i]["id"]
                 /\ styles[i].layer = valid[i]["source-layer"]

FilterFails(json_layer) ==
    /\ "filter" \in DOMAIN json_layer
    /\ ~parse_expression(json_layer["filter"].items).ok

\* C2: a failure while parsing one layer's filter skips that layer only:
\* parse_layers does not end on it, and no style carries an invalid filter.
C2_FilterFailureSkipsOneLayer ==
    Running =>
        /\ status = "raised" => ~FilterFails(json_layers[idx])
        /\ \A k \in 1..Len(json_layers) :
              (~IsKind(json_layers[k], {"background"}) /\ MalformedFilter(json_layers[k]))
                  => \A i \in 1..Len(styles) : styles[i].name # json_layers[k]["id"]

(* The styles a list of layers that never raises leaves in `styles` *)
RECURSIVE StylesOf(_)
StylesOf(layers) ==
    IF Len(layers) = 0 THEN <<>>
    ELSE IF LoopBody(layers[1]).kind = "append"
    THEN <<LoopBody(layers[1]).style>> \o StylesOf(Tail(layers))
    ELSE StylesOf(Tail(layers))

NotBackground(json_layer) == ~IsKind(json_layer, {"background"})

\* C9: a background layer yields no style and no diagnostic whatever its other
\* fields are (id, source-layer or paint missing, filter malformed): the loop
\* passes it without raising, and the styles returned are those of the list
\* without its background layers.
C9_BackgroundSkipped ==
    /\ [][(InLoop /\ IsKind(json_layers[idx], {"background"}))
            => /\ styles' = styles
               /\ printed' = printed
               /\ status' = "running"
               /\ exc' = ""
               /\ idx' = idx + 1]_vars
    /\ [](status = "returned" => styles = StylesOf(SelectSeq(json_layers, NotBackground)))

C9_Witness ==
    /\ status = "returned"
    /\ json_layers = <<FillPlain, BackgroundBadFilter, LinePlain>>
    /\ Len(styles) = 2
    /\ styles[2].name = JStr("road")
    /\ printed = <<>>

(* A fill or line layer with the keys the loop reads *)
Handled(json_layer) ==
    /\ IsKind(json_layer, {"fill", "line"})
    /\ {"id", "source-layer", "paint"} \subseteq DOMAIN json_layer

FallsBack(json_paint, key, accepted) ==
    key \in DOMAIN json_paint /\ json_paint[key].t \notin accepted

\* C10: a fill or line layer whose primary color (fill-color / line-color) is
\* missing or no string is skipped with exactly one diagnostic and the loop goes
\* on; a non-string fill-outline-color or a non-numeric fill-opacity falls back
\* to its default (the fill color, 1.0) with a diagnostic, and the style is
\* still emitted.
C10_PaintFallbacks ==
    [][InLoop =>
        LET json_layer == json_layers[idx]
            json_paint == Members(json_layer, "paint")
        IN  /\ (Handled(json_layer) /\ ~HasPrimaryColor(json_layer))
                 => /\ styles' = styles
                    /\ Len(printed') = Len(printed) + 1
                    /\ status' = "running"
                    /\ idx' = idx + 1
            /\ (/\ Handled(json_layer)
                /\ IsKind(json_layer, {"fill"})
                /\ HasPrimaryColor(json_layer)
                /\ \/ FallsBack(json_paint, "fill-outline-color", {"str"})
                   \/ FallsBack(json_paint, "fill-opacity", {"int", "float"}))
                 => /\ Len(styles') = Len(styles) + 1
                    /\ Len(printed') > Len(printed)
                    /\ LET sym == styles'[Len(styles')].symbol
                       IN  /\ FallsBack(json_paint, "fill-outline-color", {"str"})
                                => sym.strokeColor = sym.color
                           /\ FallsBack(json_paint, "fill-opacity", {"int", "float"})
                                => sym.opacity = <<1, 1>>]_vars

====
